---- MODULE Spec2Model ----
(***************************************************************************)
(* A model of the single-threaded counting semaphore of                    *)
(* src/src/local_semaphore.rs: the shared State (avail, list, closed), the *)
(* boxed Waiters the list points into, the Permit, and the tasks that call *)
(* acquire / acquire_permit / signal / close.                              *)
(*                                                                         *)
(* The executor is single-threaded and cooperative: everything a task does *)
(* between two suspension points is one atomic step.  The only suspension  *)
(* point is `waiter.await` in Semaphore::acquire.                          *)
(***************************************************************************)
EXTENDS Integers, Sequences, FiniteSets, TLC

\* ---------------------------------------------------------------- bounds
\* number of tasks; each task issues one acquire or acquire_permit call, and
\* the tasks are numbered in the order in which they issue it
NTasks == 3
\* largest number of units a single call asks for or signals
MaxUnits == 2
\* largest initial unit count passed to Semaphore::new
MaxInit == 2
\* signal() not paired with an acquire is only taken while avail stays <= MaxAvail
MaxAvail == 2

Tasks == 1 .. NTasks
Units == 1 .. MaxUnits
\* Addresses at which a Box<Waiter> can live.  One more than there are tasks,
\* so the allocator always has an address that no list entry points to.
Addrs == 1 .. (NTasks + 1)
\* the null pointer: None of Option<*mut Waiter>
NoAddr == 0

VARIABLES
    avail,      \* State::avail
    list,       \* State::list, a sequence of raw pointers (addresses)
    closed,     \* State::closed
    heap,       \* the memory behind each address: a live Waiter or freed
    task,       \* per task: where it stands in its acquire call
    initial,    \* history: the argument of Semaphore::new
    dry,        \* history: no unit has been available so far
    nDry,       \* history: number of acquire calls issued while dry
    headOnly,   \* history: every release so far left exactly the head's request
    unpaired,   \* history: signal() was called without a prior acquire()
    ub,         \* history: a freed Waiter has been dereferenced
    handoff,    \* history: the tasks a release popped and woke when theirs was
                \* the only entry of the list, with no acquire call issued
                \* and no close since
    last        \* history: the operation that produced this state: its name,
                \* the task that ran it (0: a caller outside the tasks), the
                \* units it was called with and how it ended

vars == <<avail, list, closed, heap, task, initial, dry, nDry,
          headOnly, unpaired, ub, handoff, last>>

\* ------------------------------------------------------------- Waiter
\* memory that holds no live Waiter
Freed == [live |-> FALSE, units |-> 0, woken |-> FALSE, waker |-> FALSE]

\* Waiter::new
Waiter_new(units) ==
    [live |-> TRUE, units |-> units, woken |-> FALSE, waker |-> FALSE]

\* Future for Waiter :: poll
Waiter_poll(w) ==
    IF w.woken
    THEN [ready |-> TRUE, w |-> w]
    ELSE [ready |-> FALSE, w |-> [w EXCEPT !.waker = TRUE]]

\* a wake that takes the waker and wakes the task without setting woken
Waiter_wake_LeavesFlag(w) ==
    IF w.waker
    THEN [w EXCEPT !.waker = FALSE]
    ELSE w

\* Waiter::wake: only a waiter that holds a waker is marked woken and woken
Waiter_wake(w) ==
    IF w.waker
    THEN [w EXCEPT !.woken = TRUE, !.waker = FALSE]
    ELSE w

\* ------------------------------------------------------------- State
State == [avail |-> avail, list |-> list, closed |-> closed]

\* State::new
State_new(a) == [avail |-> a, list |-> <<>>, closed |-> FALSE]

\* try_acquire without the list.is_empty() test
State_try_acquire_NoQueueTest(s, units) ==
    IF s.closed = TRUE
    THEN [res |-> "Err", st |-> s]
    ELSE IF s.avail >= units
         THEN [res |-> "true", st |-> [s EXCEPT !.avail = s.avail - units]]
         ELSE [res |-> "false", st |-> s]

\* try_acquire that takes one unit whatever the request
State_try_acquire_TakesOne(s, units) ==
    IF s.closed = TRUE
    THEN [res |-> "Err", st |-> s]
    ELSE IF s.list = <<>> /\ s.avail >= units
         THEN [res |-> "true", st |-> [s EXCEPT !.avail = s.avail - 1]]
         ELSE [res |-> "false", st |-> s]

\* try_acquire without the closed test
State_try_acquire_NoClosedTest(s, units) ==
    IF s.list = <<>> /\ s.avail >= units
    THEN [res |-> "true", st |-> [s EXCEPT !.avail = s.avail - units]]
    ELSE [res |-> "false", st |-> s]

\* try_acquire that tests closed only after the grant test has failed
State_try_acquire_ClosedTestLate(s, units) ==
    IF s.list = <<>> /\ s.avail >= units
    THEN [res |-> "true", st |-> [s EXCEPT !.avail = s.avail - units]]
    ELSE IF s.closed = TRUE
         THEN [res |-> "Err", st |-> s]
         ELSE [res |-> "false", st |-> s]

\* State::try_acquire: "Err", "true" or "false", and the state it leaves
State_try_acquire(s, units) ==
    IF s.closed = TRUE
    THEN [res |-> "Err", st |-> s]
    ELSE IF s.list = <<>> /\ s.avail >= units
         THEN [res |-> "true", st |-> [s EXCEPT !.avail = s.avail - units]]
         ELSE [res |-> "false", st |-> s]

\* a queue that pushes at the front
State_queue_Front(s, addr) == [s EXCEPT !.list = <<addr>> \o s.list]

\* State::queue: push the new Box's address at the back
State_queue(s, addr) == [s EXCEPT !.list = Append(s.list, addr)]

\* What a read of w.units through pointer a can return.  A freed Waiter is
\* undefined behaviour: the read may return anything, which shows only in the
\* comparison with avail, so the least and a value above every avail stand
\* for all of them.
Garbage == {0, MaxAvail + NTasks * MaxUnits + MaxInit + 1}
ReadUnits(h, a) == IF h[a].live THEN {h[a].units} ELSE Garbage

\* signal that pops the head and the waiter behind it
State_signal_PopsTwo(s, units, seen) ==
    LET a == s.avail + units IN
    IF s.list # <<>> /\ seen <= a
    THEN [st |-> [s EXCEPT !.avail = a,
                           !.list = IF Len(s.list) >= 2 THEN Tail(Tail(s.list)) ELSE <<>>],
          ret |-> Head(s.list)]
    ELSE [st |-> [s EXCEPT !.avail = a], ret |-> NoAddr]

\* signal that takes the woken waiter's request out of avail itself
State_signal_TakesForWaiter(s, units, seen) ==
    LET a == s.avail + units IN
    IF s.list # <<>> /\ seen <= a
    THEN [st |-> [s EXCEPT !.avail = a - seen, !.list = Tail(s.list)], ret |-> Head(s.list)]
    ELSE [st |-> [s EXCEPT !.avail = a], ret |-> NoAddr]

\* signal that wakes the head only when avail exceeds its request
State_signal_StrictlyMore(s, units, seen) ==
    LET a == s.avail + units IN
    IF s.list # <<>> /\ seen < a
    THEN [st |-> [s EXCEPT !.avail = a, !.list = Tail(s.list)], ret |-> Head(s.list)]
    ELSE [st |-> [s EXCEPT !.avail = a], ret |-> NoAddr]

\* State::signal, with `seen` the value read from the head's units field:
\* the state it leaves and the pointer it returns (NoAddr for None)
State_signal(s, units, seen) ==
    LET a == s.avail + units IN
    IF s.list # <<>> /\ seen <= a
    THEN [st |-> [s EXCEPT !.avail = a, !.list = Tail(s.list)], ret |-> Head(s.list)]
    ELSE [st |-> [s EXCEPT !.avail = a], ret |-> NoAddr]

\* `unsafe { &mut *w }.wake()` on the heap: on a freed address nothing live
\* is touched
WakeAt(h, a) ==
    IF a # NoAddr /\ h[a].live
    THEN [h EXCEPT ![a] = Waiter_wake(h[a])]
    ELSE h

\* a close that wakes the head only
WakeAll_HeadOnly(h, l) ==
    IF l = <<>> THEN h ELSE WakeAt(h, Head(l))

\* the loop of State::close applied to the heap: every entry popped and woken
RECURSIVE WakeAll(_, _)
WakeAll(h, l) ==
    IF l = <<>> THEN h ELSE WakeAll(WakeAt(h, Head(l)), Tail(l))

\* a close that pops one waiter instead of all
State_close_PopsOne(s) ==
    [s EXCEPT !.closed = TRUE, !.list = IF s.list = <<>> THEN <<>> ELSE Tail(s.list)]

\* a close that flips the flag instead of setting it
State_close_Toggles(s) == [s EXCEPT !.closed = ~s.closed, !.list = <<>>]

\* State::close
State_close(s) == [s EXCEPT !.closed = TRUE, !.list = <<>>]

\* ------------------------------------------------------------- helpers
Range(l) == {l[i] : i \in 1 .. Len(l)}
Min(S) == CHOOSE x \in S : \A y \in S : x <= y
\* the calls issued so far
Issued == {t \in Tasks : task[t].pc # "idle"}

\* The addresses the allocator may hand out for a new Box: any freed address
\* a list entry still points to, or the least of the untouched ones (which
\* are interchangeable).
AllocChoices(h, l) ==
    LET free == {a \in Addrs : ~h[a].live}
        stale == free \cap Range(l)
        fresh == free \ stale
    IN stale \cup (IF fresh = {} THEN {} ELSE {Min(fresh)})

\* a task that has not called yet, and one whose call is over: returned
\* Err ("broken"), gave its units back ("released"), or dropped ("cancelled")
Idle == [pc |-> "idle", units |-> 0, kind |-> "none", wa |-> NoAddr]
Gone(how) == [pc |-> how, units |-> 0, kind |-> "none", wa |-> NoAddr]

\* ------------------------------------------------------------- Init
Init ==
    /\ initial \in 0 .. MaxInit
    /\ avail = State_new(initial).avail
    /\ list = State_new(initial).list
    /\ closed = State_new(initial).closed
    /\ heap = [a \in Addrs |-> Freed]
    /\ task = [t \in Tasks |-> Idle]
    /\ dry = (initial = 0)
    /\ nDry = 0
    /\ headOnly = TRUE
    /\ unpaired = FALSE
    /\ ub = FALSE
    /\ handoff = {}
    /\ last = [op |-> "new", t |-> 0, u |-> initial, res |-> "none"]

\* ------------------------------------------------------------- acquire
\* One pass of the loop of Semaphore::acquire for task t, on heap h (the
\* task's previous Box, if any, already dropped): try_acquire, and on
\* Ok(false) queue a new Waiter and poll it once (which stores the waker).
AcquireLoop(t, units, kind, h, op) ==
    LET r == State_try_acquire(State, units) IN
    IF r.res = "Err"
    THEN /\ task' = [task EXCEPT ![t] = Gone("broken")]
         /\ heap' = h
         /\ UNCHANGED <<avail, list, closed>>
         /\ last' = [op |-> op, t |-> t, u |-> units, res |-> "broken"]
    ELSE IF r.res = "true"
    THEN /\ avail' = r.st.avail
         /\ task' = [task EXCEPT ![t] = [pc |-> "holding", units |-> units, kind |-> kind, wa |-> NoAddr]]
         /\ heap' = h
         /\ UNCHANGED <<list, closed>>
         /\ last' = [op |-> op, t |-> t, u |-> units, res |-> "granted"]
    ELSE \E a \in AllocChoices(h, list) :
         /\ list' = State_queue(State, a).list
         /\ heap' = [h EXCEPT ![a] = Waiter_poll(Waiter_new(units)).w]
         /\ task' = [task EXCEPT ![t] = [pc |-> "waiting", units |-> units, kind |-> kind, wa |-> a]]
         /\ UNCHANGED <<avail, closed>>
         /\ last' = [op |-> op, t |-> t, u |-> units, res |-> "queued"]

\* Task t calls acquire(units) (kind "manual") or acquire_permit(units)
\* (kind "permit") and runs to its first suspension point or to its return.
Acquire(t, units, kind) ==
    /\ task[t].pc = "idle"
    /\ \A o \in Tasks : o < t => o \in Issued
    /\ AcquireLoop(t, units, kind, heap, "acquire")
    /\ nDry' = IF dry THEN nDry + 1 ELSE nDry
    /\ handoff' = {}
    /\ UNCHANGED <<initial, dry, headOnly, unpaired, ub>>

\* The executor polls a woken task: its Waiter is Ready, `waiter.await`
\* completes and drops the Box, and the loop runs again.
Resume(t) ==
    /\ task[t].pc = "waiting"
    /\ Waiter_poll(heap[task[t].wa]).ready
    /\ AcquireLoop(t, task[t].units, task[t].kind,
                   [heap EXCEPT ![task[t].wa] = Freed], "retry")
    /\ handoff' = handoff \ {t}
    /\ UNCHANGED <<initial, dry, nDry, headOnly, unpaired, ub>>

\* ------------------------------------------------------------- release
\* Semaphore::signal and Drop for Permit share one body: State::signal, then
\* wake() through the pointer it returned.
ReleaseUnits(units, op, t) ==
    \E seen \in (IF list = <<>> THEN {0} ELSE ReadUnits(heap, Head(list))) :
        LET r == State_signal(State, units, seen)
            h == WakeAt(heap, r.ret)
        IN /\ avail' = r.st.avail
           /\ list' = r.st.list
           /\ heap' = h
           /\ ub' = (ub \/ (list # <<>> /\ ~heap[Head(list)].live))
           /\ headOnly' = (/\ headOnly
                           /\ list # <<>>
                           /\ heap[Head(list)].live
                           /\ r.st.avail = heap[Head(list)].units)
           /\ dry' = FALSE
           /\ handoff' = handoff \cup
                  (IF Len(list) = 1 /\ heap[Head(list)].live /\ r.ret # NoAddr
                   THEN {o \in Tasks : task[o].pc = "waiting" /\ task[o].wa = r.ret}
                   ELSE {})
           /\ last' = [op |-> op, t |-> t, u |-> units,
                       res |-> IF r.ret = NoAddr THEN "none"
                               ELSE IF h # heap THEN "woke" ELSE "popped"]
           /\ UNCHANGED <<closed, initial, nDry>>

\* Semaphore::signal(units) by a caller that holds no manual acquisition
Signal(units) ==
    /\ avail + units <= MaxAvail
    /\ ReleaseUnits(units, "signal", 0)
    /\ unpaired' = TRUE
    /\ UNCHANGED task

\* Semaphore::signal(units) by task t, releasing what its acquire(units) took
Release(t) ==
    /\ task[t].pc = "holding"
    /\ task[t].kind = "manual"
    /\ ReleaseUnits(task[t].units, "signal", t)
    /\ task' = [task EXCEPT ![t] = Gone("released")]
    /\ UNCHANGED unpaired

\* a Permit that gives back one unit whatever it holds
PermitDrop_GivesOne(t) ==
    /\ task[t].pc = "holding"
    /\ task[t].kind = "permit"
    /\ ReleaseUnits(1, "drop", t)
    /\ task' = [task EXCEPT ![t] = Gone("released")]
    /\ UNCHANGED unpaired

\* Drop for Permit: the Permit of task t goes out of scope (return, early
\* return, or the task holding it is dropped)
PermitDrop(t) ==
    /\ task[t].pc = "holding"
    /\ task[t].kind = "permit"
    /\ ReleaseUnits(task[t].units, "drop", t)
    /\ task' = [task EXCEPT ![t] = Gone("released")]
    /\ UNCHANGED unpaired

\* ------------------------------------------------------------- close
\* a close that also throws the available units away
Close_DropsUnits ==
    /\ closed' = State_close(State).closed
    /\ list' = State_close(State).list
    /\ heap' = WakeAll(heap, list)
    /\ avail' = 0
    /\ ub' = (ub \/ \E a \in Range(list) : ~heap[a].live)
    /\ handoff' = {}
    /\ last' = [op |-> "close", t |-> 0, u |-> 0, res |-> "none"]
    /\ UNCHANGED <<task, initial, dry, nDry, headOnly, unpaired>>

\* Semaphore::close
Close ==
    /\ closed' = State_close(State).closed
    /\ list' = State_close(State).list
    /\ heap' = WakeAll(heap, list)
    /\ ub' = (ub \/ \E a \in Range(list) : ~heap[a].live)
    /\ handoff' = {}
    /\ last' = [op |-> "close", t |-> 0, u |-> 0, res |-> "none"]
    /\ UNCHANGED <<avail, task, initial, dry, nDry, headOnly, unpaired>>

\* ------------------------------------------------------------- cancel
\* The future of a task suspended in acquire is dropped: its Box<Waiter> is
\* freed.  Neither Waiter nor the acquire future has a Drop that touches
\* State::list.
Cancel(t) ==
    /\ task[t].pc = "waiting"
    /\ heap' = [heap EXCEPT ![task[t].wa] = Freed]
    /\ task' = [task EXCEPT ![t] = Gone("cancelled")]
    /\ handoff' = handoff \ {t}
    /\ last' = [op |-> "cancel", t |-> t, u |-> task[t].units, res |-> "none"]
    /\ UNCHANGED <<avail, list, closed, initial, dry, nDry, headOnly,
                   unpaired, ub>>

Next ==
    \/ \E t \in Tasks, u \in Units, k \in {"manual", "permit"} : Acquire(t, u, k)
    \/ \E t \in Tasks : Resume(t)
    \/ \E u \in Units : Signal(u)
    \/ \E t \in Tasks : Release(t)
    \/ \E t \in Tasks : PermitDrop(t)
    \/ Close
    \/ \E t \in Tasks : Cancel(t)

Spec == Init /\ [][Next]_vars

\* The semaphore is never closed, no task is dropped, no call asks for more
\* than the semaphore was created with, and signal is only called to give
\* back a manual acquisition; the scheduler is fair and every granted
\* acquisition is eventually released.
LiveNext ==
    \/ \E t \in Tasks, u \in Units, k \in {"manual", "permit"} :
          u <= initial /\ Acquire(t, u, k)
    \/ \E t \in Tasks : Resume(t)
    \/ \E t \in Tasks : Release(t)
    \/ \E t \in Tasks : PermitDrop(t)

LiveSpec ==
    /\ Init
    /\ [][LiveNext]_vars
    /\ \A t \in Tasks : WF_vars(Resume(t)) /\ WF_vars(Release(t)) /\ WF_vars(PermitDrop(t))

\* The scheduler is fair: a task that has been woken is eventually polled.
FairSpec == Spec /\ \A t \in Tasks : WF_vars(Resume(t))

\* =====================================================================
\* Properties
\* =====================================================================
\* the step is a pass of task t through the loop of acquire: the call
\* itself ("acquire") or the retry after being woken ("retry")
Attempt(t) == last'.op \in {"acquire", "retry"} /\ last'.t = t
\* the step is a call of Semaphore::signal or the drop of a Permit
ReleaseStep == last'.op \in {"signal", "drop"}
WasGranted(t) == task[t].pc \in {"holding", "released"}

RECURSIVE SumHeld(_)
\* the units held by the tasks of S: granted and not yet given back
SumHeld(S) ==
    IF S = {} THEN 0
    ELSE LET t == CHOOSE x \in S : TRUE
         IN (IF task[t].pc = "holding" THEN task[t].units ELSE 0) + SumHeld(S \ {t})

\* C1: an attempt of acquire / acquire_permit is granted (avail goes down by
\* units, the task holds them) only if at that attempt the semaphore is open,
\* the list is empty and avail >= units; an attempt made while the list is
\* not empty is never granted: it pushes a new waiter at the back and
\* suspends, avail unchanged, even when avail >= units.
C1_GrantOnlyWhenQueueEmpty ==
    [][\A t \in Tasks : Attempt(t) =>
          /\ (last'.res = "granted" <=>
                (~closed /\ list = <<>> /\ avail >= last'.u))
          /\ (last'.res = "granted" =>
                /\ avail' = avail - last'.u
                /\ task'[t].pc = "holding"
                /\ list' = list)
          /\ (list # <<>> =>
                /\ last'.res = "queued"
                /\ task'[t].pc = "waiting"
                /\ list' = Append(list, task'[t].wa)
                /\ heap'[task'[t].wa].live
                /\ ~heap'[task'[t].wa].woken
                /\ avail' = avail)]_vars

\* C1 witness: a call arrived while the list was not empty and avail covered
\* it, and it was queued
C1_Witness ==
    /\ last.op = "acquire"
    /\ last.res = "queued"
    /\ Len(list) >= 2
    /\ avail >= last.u
    /\ ~closed

\* C2: the acquire calls issued before any unit became available are
\* granted in the order they were issued, when every release so far left
\* avail at exactly the head's request: no call is granted while a call
\* issued before it is still waiting.
C2_FifoGrantOrder ==
    headOnly =>
        \A t1, t2 \in 1 .. nDry :
            (t1 < t2 /\ WasGranted(t2)) => task[t1].pc # "waiting"

\* C3: while signal is only called to give back a manual acquisition,
\* avail = initial - (units held by Permits and manual acquisitions);
\* waiters, queued or woken, hold nothing.
C3_Conservation ==
    ~unpaired => avail = initial - SumHeld(Tasks)

\* C3 witness: a Permit is held, units have been given back, and a woken
\* task has not yet retried
C3_Witness ==
    /\ ~unpaired
    /\ \E t \in Tasks : task[t].pc = "holding" /\ task[t].kind = "permit"
    /\ \E t \in Tasks : task[t].pc = "released"
    /\ \E t \in Tasks : task[t].pc = "waiting" /\ heap[task[t].wa].woken

\* C4: every entry of the list points to a live waiter whose task is
\* suspended on it, and no freed waiter is ever dereferenced.
C4_QueueHoldsLiveWaiters ==
    /\ \A i \in 1 .. Len(list) :
          /\ heap[list[i]].live
          /\ \E t \in Tasks : task[t].pc = "waiting" /\ task[t].wa = list[i]
    /\ ~ub

\* C5: a call of acquire / acquire_permit on a closed semaphore returns the
\* error at once: the task is not suspended, no waiter is created or
\* queued, and avail, list and closed are unchanged.
C5_AcquireAfterCloseFails ==
    [][\A t \in Tasks : (Attempt(t) /\ last'.op = "acquire" /\ closed) =>
          /\ last'.res = "broken"
          /\ task'[t].pc = "broken"
          /\ heap' = heap
          /\ avail' = avail
          /\ list' = list
          /\ closed' = closed]_vars

\* C5 witness: a call issued after close has failed, with units available
C5_Witness ==
    /\ closed
    /\ last.op = "acquire"
    /\ last.res = "broken"
    /\ avail >= MaxUnits

\* the tasks suspended on a waiter that is still in the list
Queued == {t \in Tasks : task[t].pc = "waiting" /\ task[t].wa \in Range(list)}
\* the tasks suspended on a waiter that has been woken
Woken == {t \in Tasks : task[t].pc = "waiting" /\ heap[task[t].wa].woken}

\* C6: close wakes every task whose waiter is in the list at that moment
\* and empties the list, whatever the requests and avail; and under a fair
\* scheduler every task suspended when the semaphore is closed goes on to
\* return the error (unless the task itself is dropped first).
C6_CloseWakesEveryWaiter ==
    /\ [][last'.op = "close" =>
            /\ list' = <<>>
            /\ \A t \in Queued : heap'[task[t].wa].woken]_vars
    /\ \A t \in Tasks :
          (closed /\ task[t].pc = "waiting") ~> (task[t].pc \in {"broken", "cancelled"})

\* C6 witness: close has just woken two waiters whose requests avail does
\* not cover
C6_Witness ==
    /\ last.op = "close"
    /\ \E t1, t2 \in Woken : t1 # t2 /\ task[t1].units > avail /\ task[t2].units > avail

\* C7: on a closed semaphore no attempt is granted: the retry of a task
\* that was queued, or popped and woken before close, and every later call
\* end with the error and take nothing, whatever avail is.
C7_NoGrantAfterClose ==
    [][\A t \in Tasks : (Attempt(t) /\ closed) =>
          /\ last'.res = "broken"
          /\ task'[t].pc = "broken"
          /\ avail' = avail]_vars

\* C7 witness: a woken task retried after close and failed although a
\* release after close had raised avail to its request
C7_Witness ==
    /\ closed
    /\ last.op = "retry"
    /\ last.res = "broken"
    /\ avail >= last.u
    /\ initial < last.u

\* C8: a granted acquire_permit(n) takes n units and the drop of its Permit
\* gives n back, so that a drop right after the grant restores avail; the
\* Permit is gone after its drop; an acquire_permit that fails with the
\* error or is dropped while suspended takes no units and leaves no Permit.
C8_PermitRoundTrip ==
    [][\A t \in Tasks :
          /\ (Attempt(t) /\ last'.res = "granted" /\ task'[t].kind = "permit") =>
                (avail' = avail - last'.u /\ task'[t].units = last'.u)
          /\ (last'.op = "drop" /\ last'.t = t) =>
                /\ task[t].pc = "holding" /\ task[t].kind = "permit"
                /\ avail' = avail + task[t].units
                /\ task'[t].pc = "released"
                /\ ((last.res = "granted" /\ last.t = t) => avail' = avail + last.u)
          /\ ((last'.op = "cancel" /\ last'.t = t) \/ (Attempt(t) /\ last'.res = "broken")) =>
                (avail' = avail /\ task'[t].pc \notin {"holding", "released"})]_vars

\* C8 witness: the only thing that has happened is an acquire_permit of
\* MaxUnits units and the drop of its Permit
C8_Witness ==
    /\ last = [op |-> "drop", t |-> 1, u |-> MaxUnits, res |-> "none"]
    /\ task[1].pc = "released"
    /\ \A t \in Tasks \ {1} : task[t].pc = "idle"
    /\ ~unpaired /\ ~closed
    /\ avail = initial

\* C9: one call of signal, or one Permit drop, removes at most one entry
\* from the list, the head, and wakes at most one waiter, the one removed;
\* the other entries stay in their order.
C9_AtMostOneWake ==
    [][ReleaseStep =>
          /\ (list' = list \/ (list # <<>> /\ list' = Tail(list)))
          /\ \A a \in Addrs : (heap'[a] # heap[a]) =>
                (list # <<>> /\ a = Head(list) /\ list' = Tail(list))]_vars

\* C9 witness: a release woke a waiter and left in the list a head whose
\* request avail covers as well
C9_Witness ==
    /\ last.op \in {"signal", "drop"}
    /\ last.res = "woke"
    /\ list # <<>>
    /\ heap[Head(list)].live
    /\ \E t \in Woken : task[t].units + heap[Head(list)].units <= avail

\* C10: signal(units), and the drop of a Permit of that many units, adds
\* exactly units to avail, whether or not it wakes a waiter; avail goes down
\* only in a granted attempt of acquire.
C10_SignalOnlyAdds ==
    [][/\ ReleaseStep => avail' = avail + last'.u
       /\ avail' < avail => \E t \in Tasks : Attempt(t) /\ last'.res = "granted"]_vars

\* C10 witness: a release has woken a waiter and avail still holds the
\* units the waiter asked for
C10_Witness ==
    /\ last.op \in {"signal", "drop"}
    /\ last.res = "woke"
    /\ \E t \in Woken : task[t].units <= avail /\ avail = last.u

\* C11: signal (and a Permit drop) looks at the head of the list only: after
\* adding units, a head that is a live waiter is popped and woken if and only
\* if its request is <= the new avail; otherwise the list and every waiter
\* are left as they were, even when a waiter further back asks for an amount
\* avail covers.
C11_SignalLooksAtHeadOnly ==
    [][(ReleaseStep /\ list # <<>> /\ heap[Head(list)].live) =>
          IF heap[Head(list)].units <= avail'
          THEN /\ list' = Tail(list)
               /\ heap'[Head(list)].woken
               /\ last'.res \in {"woke", "popped"}
          ELSE /\ list' = list
               /\ heap' = heap
               /\ last'.res = "none"]_vars

\* C11 witness: a release left the list alone because avail does not cover
\* the head, although it covers a waiter behind the head
C11_Witness ==
    /\ last.op \in {"signal", "drop"}
    /\ last.res = "none"
    /\ Len(list) >= 2
    /\ heap[list[1]].live /\ heap[list[1]].units > avail
    /\ heap[list[2]].live /\ heap[list[2]].units <= avail
    /\ Woken = {}

\* C12: once closed is true it stays true, whatever is called afterwards.
C12_ClosedIsMonotone ==
    [][closed => closed']_vars

\* C12 witness: the semaphore is closed and since then a task has failed,
\* units have been released and close has been called again
C12_Witness ==
    /\ closed
    /\ \E t \in Tasks : task[t].pc = "broken"
    /\ \E t \in Tasks : task[t].pc = "released"
    /\ last.op = "close"

\* C13: close on a closed semaphore changes nothing: avail, list, closed,
\* the waiters and every task's status are as before, nobody is woken.
C13_CloseIsIdempotent ==
    [][(last'.op = "close" /\ closed) =>
          /\ avail' = avail
          /\ list' = list
          /\ closed' = closed
          /\ heap' = heap
          /\ task' = task]_vars

\* C13 witness: close was called on a semaphore that a task had already
\* found closed, with units available and a woken task still to retry
C13_Witness ==
    /\ last.op = "close"
    /\ \E t \in Tasks : task[t].pc = "broken"
    /\ Woken # {}
    /\ avail > 0

\* the tasks this step wakes
NewlyWoken == {t \in Tasks : /\ task[t].pc = "waiting"
                             /\ ~heap[task[t].wa].woken
                             /\ heap'[task[t].wa].woken}

\* C14: suspended tasks are resumed in arrival order: a signal or Permit
\* drop never wakes a task while a task whose call was issued earlier is
\* still suspended in the list.
C14_WakesInArrivalOrder ==
    [][ReleaseStep =>
          \A t \in NewlyWoken : \A o \in Tasks : o < t => o \notin Queued]_vars

\* C15: being woken grants nothing: the retry of a woken task runs the whole
\* grant test, and when the semaphore is open and the list is not empty or
\* avail < units the task is not granted, takes nothing and goes to the tail
\* of the list with a new waiter that is not woken.  (That a task can so end
\* up behind a call issued after it is what the witness reaches.)
C15_WokenTaskRetries ==
    [][\A t \in Tasks :
          (Attempt(t) /\ last'.op = "retry" /\ ~closed) =>
              /\ heap[task[t].wa].woken
              /\ last'.res = "granted" <=> (list = <<>> /\ avail >= task[t].units)
              /\ (list # <<>> \/ avail < task[t].units) =>
                    /\ last'.res = "queued"
                    /\ avail' = avail
                    /\ task'[t].pc = "waiting"
                    /\ list' = Append(list, task'[t].wa)
                    /\ heap'[task'[t].wa] = Waiter_poll(Waiter_new(task[t].units)).w]_vars

\* C15 witness: no task was dropped, and a woken task's retry has put it in
\* the list behind a task whose call was issued after its own, although
\* avail covers its request
C15_Witness ==
    /\ last.op = "retry"
    /\ last.res = "queued"
    /\ avail >= last.u
    /\ \A t \in Tasks : task[t].pc # "cancelled"
    /\ list[Len(list)] = task[last.t].wa
    /\ \E i \in 1 .. Len(list) - 1 : \E o \in Queued : o > last.t /\ task[o].wa = list[i]

\* C16: when exactly one task is queued, for n units, and a signal or Permit
\* drop brings avail to at least n, that task is popped and woken; and if no
\* other acquire is issued and no close occurs before it runs, its retry is
\* granted and avail goes down by exactly n.
C16_SingleWaiterHandOff ==
    [][/\ (ReleaseStep /\ Len(list) = 1 /\ heap[Head(list)].live
                       /\ heap[Head(list)].units <= avail') =>
              (list' = <<>> /\ heap'[Head(list)].woken)
       /\ \A t \in handoff : Attempt(t) =>
              (last'.res = "granted" /\ avail' = avail - task[t].units)]_vars

\* C17: a closed semaphore has an empty list: close drains it and no acquire
\* queues a waiter afterwards, so a release after close wakes nobody.
C17_ClosedHasEmptyList ==
    closed => list = <<>>

\* C17 witness: after close, with a task failed and a woken task still to
\* retry, a release has raised avail and woken nobody
C17_Witness ==
    /\ closed
    /\ last.op \in {"signal", "drop"}
    /\ last.res = "none"
    /\ \E t \in Tasks : task[t].pc = "broken"
    /\ \E t \in Woken : task[t].units <= avail

\* the number of entries of l that are a
RECURSIVE Count(_, _)
Count(l, a) ==
    IF l = <<>> THEN 0 ELSE (IF Head(l) = a THEN 1 ELSE 0) + Count(Tail(l), a)

\* C18: while no task has been dropped, every task suspended in acquire is
\* in exactly one of two conditions: its waiter is in the list exactly once
\* and not woken, or its waiter is nowhere in the list and woken; and every
\* entry of the list is the waiter of a suspended task.
C18_NoLostWakeup ==
    (\A t \in Tasks : task[t].pc # "cancelled") =>
        /\ \A t \in Tasks : task[t].pc = "waiting" =>
              LET w == heap[task[t].wa]
                  n == Count(list, task[t].wa)
              IN /\ w.live
                 /\ \/ (n = 1 /\ ~w.woken /\ w.waker)
                    \/ (n = 0 /\ w.woken)
        /\ \A i \in 1 .. Len(list) :
              \E t \in Tasks : task[t].pc = "waiting" /\ task[t].wa = list[i]
        /\ \A t1, t2 \in Tasks :
              (t1 # t2 /\ task[t1].pc = "waiting" /\ task[t2].pc = "waiting") =>
                  task[t1].wa # task[t2].wa

\* C18 witness: no task was dropped, units have been released, the
\* semaphore has been closed, and two popped and woken tasks wait for their
\* retry
C18_Witness ==
    /\ \A t \in Tasks : task[t].pc # "cancelled"
    /\ Cardinality(Woken) >= 2
    /\ closed
    /\ \E t \in Tasks : task[t].pc = "released"

\* C19: the semaphore never stalls with work it could admit: in every state
\* of an open semaphore in which no woken task is pending its retry (and no
\* task has been dropped), the list is empty or its head asks for more than
\* avail.
C19_NoStallWithSatisfiableHead ==
    (~closed /\ Woken = {} /\ \A t \in Tasks : task[t].pc # "cancelled") =>
        (list = <<>> \/ heap[Head(list)].units > avail)

\* C20: if the semaphore is never closed, no task is dropped, the scheduler
\* is fair and every granted acquisition is eventually released, every
\* acquire that asks for no more than the initial units is eventually
\* granted.
C20_StarvationFreedom ==
    \A t \in Tasks :
        (task[t].pc = "waiting" /\ task[t].units <= initial) ~> WasGranted(t)

====
